---- MODULE Spec2Model ----
(***************************************************************************)
(* Model of the connectivity generators of NNGT                            *)
(* (src/src/nngt/generation/graph_connectivity.py).                        *)
(*                                                                         *)
(* Each generator is a sequential Python function; it is modelled as a     *)
(* state machine whose state is one record holding the call's arguments,   *)
(* its local variables (under the names the source gives them) and the     *)
(* position of the call (pc).  Random draws are nondeterministic choices.  *)
(*                                                                         *)
(*   er : one call of erdos_renyi        (lines 24-91)                     *)
(*   fs : one call of random_free_scale  (lines 99-231)                    *)
(*   edr: one call of gen_edr, with the weight functions it dispatches to  *)
(*        (lines 237-365)                                                  *)
(*   gc : the instance counters of the graph classes                       *)
(*        (src/src/nngt/core/graph_classes.py)                             *)
(*   ge : the edge containers of one Graph instance                        *)
(*        (src/src/nngt/core/graph_classes.py)                             *)
(*                                                                         *)
(* Numbers that the source computes in floating point are kept as exact    *)
(* rationals <<numerator, denominator>>; the argument values enumerated    *)
(* below are ones for which IEEE double arithmetic gives the same integer  *)
(* tests and truncations as the exact value.                               *)
(***************************************************************************)
EXTENDS Integers, Sequences, FiniteSets, Bags, TLC

VARIABLES er, fs, edr, gc, ge

vars == <<er, fs, edr, gc, ge>>

-----------------------------------------------------------------------------
(* Bounds of the model.                                                    *)

\* largest value of the argument `nodes`
MaxNodes == 3

\* n_MAXTESTS (line 16) is 10000 in the source; the model runs the same
\* loops with a small cap so that cap exhaustion is reachable.
n_MAXTESTS == 3

\* largest degree target drawn for one node (lines 154-155)
MaxDegree == 2

\* values of the argument `density` (default 0.1, line 24)
DefaultDensity == <<1, 10>>

Densities == {DefaultDensity, <<3, 10>>}

\* values of the argument `edges` (default -1)
EdgesArgs == -1..4

\* values of the argument `avg_deg` (default -1)
AvgDegs == {-1, 1}

\* values of the argument `reciprocity` (default -1.)
Reciprocities == {<<-1, 1>>, <<1, 2>>, <<1, 1>>}

-----------------------------------------------------------------------------
(* Helpers.                                                                *)

Max(a, b) == IF a >= b THEN a ELSE b

Range(s) == {s[i] : i \in DOMAIN s}

\* the bag holding the elements of a sequence, with their multiplicities
SeqToBag(s) == [e \in Range(s) |-> Cardinality({i \in DOMAIN s : s[i] = e})]

\* nondecreasing sequences of length k over lo..hi
RECURSIVE SortedSeqs(_, _, _)
SortedSeqs(k, lo, hi) ==
    IF k = 0 THEN {<<>>}
    ELSE UNION {{<<x>> \o s : s \in SortedSeqs(k - 1, x, hi)} : x \in lo..hi}

\* the elements of a finite set of integers, ascending
RECURSIVE SortedSeqOf(_)
SortedSeqOf(S) ==
    IF S = {} THEN <<>>
    ELSE LET m == CHOOSE x \in S : \A y \in S : x <= y
         IN <<m>> \o SortedSeqOf(S \ {m})

-----------------------------------------------------------------------------
(* graph_tool.Graph as the generators use it: a directedness flag, a       *)
(* vertex count and a multiset of edges.  The order of the edge list is    *)
(* not kept: no step of erdos_renyi reads it.  An edge of an undirected    *)
(* graph has no orientation; it is stored with its smaller endpoint first. *)

NoGraph == [exists |-> FALSE, directed |-> TRUE, nv |-> 0, E |-> EmptyBag]

GraphAlwaysDirected(directed) ==
    [exists |-> TRUE, directed |-> TRUE, nv |-> 0, E |-> EmptyBag]

\* Graph(directed=...) : an empty graph, with no vertex (line 67, line 133)
Graph(directed) ==
    [exists |-> TRUE, directed |-> directed, nv |-> 0, E |-> EmptyBag]

Orient(g, e) == IF g.directed \/ e[1] <= e[2] THEN e ELSE <<e[2], e[1]>>

\* Graph.add_edge_list: one edge per row of the array; vertices are added
\* as needed so that every endpoint named exists (lines 72, 83, 209)
add_edge_list(g, edge_list) ==
    LET top == IF edge_list = <<>> THEN 0
               ELSE 1 + (CHOOSE m \in {Max(e[1], e[2]) : e \in Range(edge_list)} :
                            \A e \in Range(edge_list) : m >= Max(e[1], e[2]))
    IN [g EXCEPT !.nv = Max(g.nv, top),
                 !.E = g.E (+) SeqToBag([i \in DOMAIN edge_list |->
                                            Orient(g, edge_list[i])])]

remove_self_loops_kept(g) == g

\* graph_tool.stats.remove_self_loops (lines 73, 84, 210)
remove_self_loops(g) ==
    [g EXCEPT !.E = [e \in {x \in DOMAIN g.E : x[1] # x[2]} |-> g.E[e]]]

\* graph_tool.stats.remove_parallel_edges (lines 75, 86, 211)
remove_parallel_edges(g) == [g EXCEPT !.E = SetToBag(BagToSet(g.E))]

\* Graph.num_edges (lines 76, 87)
num_edges(g) == BagCardinality(g.E)

\* u -> v is an edge of g (for an undirected graph, u - v)
HasEdge(g, u, v) ==
    \/ BagIn(<<u, v>>, g.E)
    \/ ~g.directed /\ BagIn(<<v, u>>, g.E)

\* adjacency(g).tocoo() of a directed graph (line 79): one entry per
\* distinct (source, target) pair (the csr matrix sums duplicates), entry
\* a[target, source], listed by row then column.
adjacency_tocoo(g) ==
    LET w == g.nv + 1
        keys == SortedSeqOf({e[2] * w + e[1] : e \in BagToSet(g.E)})
    IN [row |-> [i \in DOMAIN keys |-> keys[i] \div w],
        col |-> [i \in DOMAIN keys |-> keys[i] % w]]

-----------------------------------------------------------------------------
(* _compute_edges (called at lines 58 and 129; its definition is not in    *)
(* the file).  Modelled from the specification: E comes from whichever of  *)
(* edges, avg_deg, density is given; the call fails when two given values  *)
(* disagree, when E is not positive, and when E exceeds the largest simple *)
(* directed edge count nodes*(nodes-1).                                    *)

_compute_edges(nodes, density, edges, avg_deg) ==
    LET fromDensity == (density[1] * nodes * nodes) \div density[2]
        given == (IF edges # -1 THEN {edges} ELSE {})
                   \cup (IF avg_deg # -1 THEN {avg_deg * nodes} ELSE {})
                   \cup (IF density # DefaultDensity THEN {fromDensity} ELSE {})
        value == IF edges # -1 THEN edges
                 ELSE IF avg_deg # -1 THEN avg_deg * nodes
                 ELSE fromDensity
    IN [ok |-> /\ Cardinality(given) <= 1
               /\ value > 0
               /\ value <= nodes * (nodes - 1),
        value |-> value]

-----------------------------------------------------------------------------
(* erdos_renyi (lines 24-91)                                               *)

ErArgs ==
    [nodes : 0..MaxNodes, density : Densities, edges : EdgesArgs,
     avg_deg : AvgDegs, reciprocity : Reciprocities,
     directed : BOOLEAN, multigraph : BOOLEAN]

\* directed and reciprocity > 0. (lines 63 and 78)
RecipRequested(e) == e.directed /\ e.reciprocity[1] > 0

ErIdle ==
    [nodes |-> 0, density |-> DefaultDensity, edges |-> -1, avg_deg |-> -1,
     reciprocity |-> <<-1, 1>>, directed |-> TRUE, multigraph |-> FALSE,
     float_size_ok |-> TRUE, pc |-> "idle", exc |-> "none",
     warnings |-> {}, frac_recip |-> <<0, 1>>,
     pre_recip_edges |-> <<0, 1>>, graph_er |-> NoGraph, num_test |-> 0,
     num_current_edges |-> 0, coo_adjacency |-> [row |-> <<>>, col |-> <<>>]]

ErRaise(what) == er' = [er EXCEPT !.pc = "raised", !.exc = what]

ER_SetupGraphFirst ==
    /\ er.pc = "call"
    /\ LET ce == _compute_edges(er.nodes, er.density, er.edges, er.avg_deg)
       IN IF ~ce.ok
          THEN er' = [er EXCEPT !.pc = "raised", !.exc = "InvalidParameter",
                                !.graph_er = Graph(er.directed)]
          ELSE er' = [er EXCEPT
                 !.pc = "base",
                 !.density = DefaultDensity,
                 !.avg_deg = -1,
                 !.reciprocity = IF er.directed THEN er.reciprocity ELSE <<-1, 1>>,
                 !.edges = IF ~er.directed THEN ce.value \div 2 ELSE ce.value,
                 !.pre_recip_edges = <<ce.value, 1>>,
                 !.graph_er = Graph(er.directed)]
    /\ UNCHANGED <<fs, edr, gc, ge>>

\* lines 57-69.  density and avg_deg are not read after line 58, nor is
\* reciprocity when directed is False (lines 61-63, 78): the model forgets
\* them there.
ER_Setup ==
    /\ er.pc = "call"
    /\ LET ce == _compute_edges(er.nodes, er.density, er.edges, er.avg_deg)
           r == er.reciprocity
           \* line 64: reciprocity/(2.0-reciprocity)
           frac == IF RecipRequested(er) THEN <<r[1], 2 * r[2] - r[1]>>
                   ELSE <<0, 1>>
           \* line 60, line 65: edges / (1+frac_recip)
           pre == IF RecipRequested(er)
                  THEN <<ce.value * frac[2], frac[2] + frac[1]>>
                  ELSE <<ce.value, 1>>
       IN IF ~ce.ok THEN ErRaise("InvalidParameter")
          ELSE er' = [er EXCEPT
                 !.pc = "base",
                 !.density = DefaultDensity,
                 !.avg_deg = -1,
                 !.reciprocity = IF er.directed THEN r ELSE <<-1, 1>>,
                 \* line 62
                 !.edges = IF ~er.directed THEN ce.value \div 2 ELSE ce.value,
                 !.frac_recip = frac,
                 !.pre_recip_edges = pre,
                 !.graph_er = Graph(er.directed),
                 !.num_test = 0,
                 !.num_current_edges = 0]
    /\ UNCHANGED <<fs, edr, gc, ge>>

\* line 70: num_current_edges != pre_recip_edges and num_test < n_MAXTESTS
BaseContinue ==
    /\ er.num_current_edges * er.pre_recip_edges[2] # er.pre_recip_edges[1]
    /\ er.num_test < n_MAXTESTS

BaseSampleSizeWhole == er.pre_recip_edges[1] \div er.pre_recip_edges[2]

\* line 71: the number of rows asked of randint, a float truncated
BaseSampleSize ==
    (er.pre_recip_edges[1] - er.num_current_edges * er.pre_recip_edges[2])
        \div er.pre_recip_edges[2]

\* np.random.randint(0,high,(k,2)): every array of k pairs; arrays that
\* differ only in the order of their rows add the same edges and are
\* listed once.
\* the largest edge count a call of the model can ask for
MaxTarget ==
    LET T == {_compute_edges(a.nodes, a.density, a.edges, a.avg_deg).value :
                 a \in ErArgs}
    IN CHOOSE m \in T : \A t \in T : m >= t

RandintPairs ==
    [high \in 0..MaxNodes, k \in 0..MaxTarget |->
        {[i \in 1..k |-> <<s[i] \div high, s[i] % high>>] :
            s \in SortedSeqs(k, 0, high * high - 1)}]

randint_pairs(high, k) == RandintPairs[high, k]

\* lines 73-75 and 84-86
Filtered(g, multigraph) ==
    IF multigraph THEN remove_self_loops(g)
    ELSE remove_parallel_edges(remove_self_loops(g))

NextTestStuck(n) == n

\* lines 77 and 88: num_test += 1
NextTest(n) == n + 1

\* lines 70-77: one pass of the base loop
ER_BaseRound ==
    /\ er.pc = "base"
    /\ BaseContinue
    /\ IF RecipRequested(er) /\ ~er.float_size_ok
       THEN ErRaise("TypeError")
       ELSE \E ia_edges \in randint_pairs(er.nodes, BaseSampleSize) :
              LET g == Filtered(add_edge_list(er.graph_er, ia_edges),
                                er.multigraph)
              IN er' = [er EXCEPT !.graph_er = g,
                                  !.num_current_edges = num_edges(g),
                                  !.num_test = NextTest(er.num_test)]
    /\ UNCHANGED <<fs, edr, gc, ge>>

\* line 70 false, lines 78-79, and lines 90-91 when there is no second phase
ER_BaseExit ==
    /\ er.pc = "base"
    /\ ~BaseContinue
    /\ IF RecipRequested(er)
       THEN er' = [er EXCEPT !.pc = "recip",
                             !.coo_adjacency = adjacency_tocoo(er.graph_er)]
       ELSE er' = [er EXCEPT !.pc = "done"]
    /\ UNCHANGED <<fs, edr, gc, ge>>

\* line 80
RecipContinue ==
    /\ er.num_current_edges # er.edges
    /\ er.num_test < n_MAXTESTS

\* lines 80-88: one pass of the reciprocity loop.  ia_edges (line 82) is an
\* array of 2 rows and k columns; add_edge_list reads one edge per row, from
\* the first two columns, and refuses an array with fewer than two columns.
ER_RecipRound ==
    /\ er.pc = "recip"
    /\ RecipContinue
    /\ LET k == er.edges - er.num_current_edges
           coo == er.coo_adjacency
       IN \E ia_indices \in [1..k -> 0..(er.num_current_edges - 1)] :
            IF \E i \in 1..k : ia_indices[i] >= Len(coo.col)
            THEN ErRaise("IndexError")
            ELSE IF k < 2 THEN ErRaise("ValueError")
            ELSE LET ia_edges ==
                        <<<<coo.col[ia_indices[1] + 1], coo.col[ia_indices[2] + 1]>>,
                          <<coo.row[ia_indices[1] + 1], coo.row[ia_indices[2] + 1]>>>>
                     g == Filtered(add_edge_list(er.graph_er, ia_edges),
                                   er.multigraph)
                 IN er' = [er EXCEPT !.graph_er = g,
                                     !.num_current_edges = num_edges(g),
                                     !.num_test = NextTest(er.num_test)]
    /\ UNCHANGED <<fs, edr, gc, ge>>

\* line 80 false, lines 90-91
ER_RecipExit ==
    /\ er.pc = "recip"
    /\ ~RecipContinue
    /\ er' = [er EXCEPT !.pc = "done"]
    /\ UNCHANGED <<fs, edr, gc, ge>>

-----------------------------------------------------------------------------
(* random_free_scale (lines 99-231)                                        *)
(*                                                                         *)
(* A Python number is a record: np says whether it is a numpy scalar       *)
(* (numpy.float64) or a built-in float/int, kind whether it is a number    *)
(* (the rational n/d), nan or inf.  A built-in division by zero raises     *)
(* ZeroDivisionError; a division by zero with a numpy scalar operand gives *)
(* nan or inf (and a RuntimeWarning).                                      *)

Num(np, n, d) == [np |-> np, kind |-> "num", n |-> n, d |-> d]

NaN == [np |-> TRUE, kind |-> "nan", n |-> 0, d |-> 1]

Inf == [np |-> TRUE, kind |-> "inf", n |-> 0, d |-> 1]

IsZero(x) == x.kind = "num" /\ x.n = 0

\* x / y raises ZeroDivisionError
DivRaises(x, y) == IsZero(y) /\ ~x.np /\ ~y.np

\* x / y, when it does not raise
Div(x, y) ==
    IF x.kind # "num" \/ y.kind # "num" THEN NaN
    ELSE IF y.n = 0 THEN (IF x.n = 0 THEN NaN ELSE Inf)
    ELSE IF y.n > 0 THEN Num(x.np \/ y.np, x.n * y.d, x.d * y.n)
    ELSE Num(x.np \/ y.np, -(x.n * y.d), -(x.d * y.n))

Mul(x, y) ==
    IF x.kind # "num" \/ y.kind # "num" THEN NaN
    ELSE Num(x.np \/ y.np, x.n * y.n, x.d * y.d)

Add(x, y) ==
    IF x.kind # "num" \/ y.kind # "num" THEN NaN
    ELSE Num(x.np \/ y.np, x.n * y.d + y.n * x.d, x.d * y.d)

Sub(x, y) == Add(x, Num(y.np, -y.n, y.d))

PyInt(n) == Num(FALSE, n, 1)

\* int(np.floor(x)) of a number x >= 0
Floor(x) == x.n \div x.d

\* x < y; a comparison with nan is False
Less(x, y) ==
    /\ x.kind = "num" /\ y.kind = "num"
    /\ x.n * y.d < y.n * x.d

\* values of the exponent arguments in_exp, out_exp (default 2.5)
Exponents == {<<2, 1>>, <<5, 2>>}

\* dicProperties is a name random_free_scale reads (lines 135-139) without
\* defining or receiving it: it is looked up among the module's globals at
\* the call.  Either there is none, or it is a dictionary whose values are
\* built-in floats or numpy scalars.
DicKeys == {"Reciprocity", "InDeg", "OutDeg"}

DicProperties ==
    {[defined |-> FALSE, np |-> [k \in DicKeys |-> FALSE],
      Reciprocity |-> <<0, 1>>, InDeg |-> <<5, 2>>, OutDeg |-> <<5, 2>>]}
    \cup [defined : {TRUE}, np : [DicKeys -> BOOLEAN],
          Reciprocity : {<<1, 2>>}, InDeg : Exponents, OutDeg : {<<5, 2>>}]

FsArgs ==
    [nodes : 0..MaxNodes, density : Densities, edges : EdgesArgs,
     avg_deg : AvgDegs, in_exp : Exponents, out_exp : Exponents,
     directed : BOOLEAN, multigraph : BOOLEAN]

FsIdle ==
    [nodes |-> 0, density |-> DefaultDensity, edges |-> -1, avg_deg |-> -1,
     in_exp |-> <<5, 2>>, out_exp |-> <<5, 2>>, directed |-> TRUE,
     multigraph |-> FALSE,
     dicProperties |-> CHOOSE d \in DicProperties : ~d.defined,
     pc |-> "idle", exc |-> "none", calls |-> <<>>,
     graphFS |-> NoGraph, f |-> PyInt(0), rFracRecip |-> PyInt(0),
     rInDeg |-> PyInt(0), rOutDeg |-> PyInt(0), nNodes |-> 0, nEdges |-> 0,
     rDens |-> PyInt(0), nArcs |-> 0, Ai |-> PyInt(0), Ao |-> PyInt(0),
     rMi |-> PyInt(0), rMo |-> PyInt(0), lstInDeg |-> <<>>, lstOutDeg |-> <<>>,
     nInStubs |-> 0, nOutStubs |-> 0, lstInStubs |-> <<>>,
     lstOutStubs |-> <<>>, nMaxStubs |-> 0, nRecip |-> 0,
     vert |-> -1, nInWrites |-> <<>>, nOutWrites |-> <<>>]

FsRaise(what) == fs' = [fs EXCEPT !.pc = "raised", !.exc = what]

\* lines 128-133.  density and avg_deg are not read after line 129 and the
\* model forgets them there.
FS_Setup ==
    /\ fs.pc = "call"
    /\ LET ce == _compute_edges(fs.nodes, fs.density, fs.edges, fs.avg_deg)
       IN IF ~ce.ok THEN FsRaise("InvalidParameter")
          ELSE fs' = [fs EXCEPT
                 !.pc = "properties",
                 !.density = DefaultDensity,
                 !.avg_deg = -1,
                 \* line 131
                 !.edges = IF ~fs.directed THEN ce.value \div 2 ELSE ce.value,
                 \* line 133: Graph(), directed by default
                 !.graphFS = Graph(TRUE)]
    /\ UNCHANGED <<er, edr, gc, ge>>

\* lines 135-144
FS_Properties ==
    /\ fs.pc = "properties"
    /\ LET dic == fs.dicProperties
           f == Num(dic.np["Reciprocity"], dic.Reciprocity[1], dic.Reciprocity[2])
           \* line 136: f/(2.0-f)
           rFracRecip == Div(f, Sub(PyInt(2), f))
           nNodes == 0
           rDens == PyInt(0)
           \* line 144: int(np.floor(rDens*nNodes**2)/(1+rFracRecip))
           nArcs == Floor(Div(PyInt(Floor(Mul(rDens, PyInt(nNodes * nNodes)))),
                              Add(PyInt(1), rFracRecip)))
       IN IF ~dic.defined THEN FsRaise("NameError")
          ELSE fs' = [fs EXCEPT
                 !.pc = "law",
                 !.f = f,
                 !.rFracRecip = rFracRecip,
                 !.rInDeg = Num(dic.np["InDeg"], dic.InDeg[1], dic.InDeg[2]),
                 !.rOutDeg = Num(dic.np["OutDeg"], dic.OutDeg[1], dic.OutDeg[2]),
                 !.nNodes = nNodes,
                 !.nEdges = 0,
                 !.rDens = rDens,
                 !.nArcs = nArcs]
    /\ UNCHANGED <<er, edr, gc, ge>>

\* lines 146-150
FS_Law ==
    /\ fs.pc = "law"
    /\ LET AiNum == Mul(PyInt(fs.nArcs), Sub(fs.rInDeg, PyInt(1)))
           AoNum == Mul(PyInt(fs.nArcs), Sub(fs.rOutDeg, PyInt(1)))
           MiDen == Sub(fs.rInDeg, PyInt(2))
           MoDen == Sub(fs.rOutDeg, PyInt(2))
       IN IF \/ DivRaises(AiNum, PyInt(fs.nNodes))
             \/ DivRaises(AoNum, PyInt(fs.nNodes))
             \/ DivRaises(PyInt(1), MiDen)
             \/ DivRaises(PyInt(1), MoDen)
          THEN FsRaise("ZeroDivisionError")
          ELSE fs' = [fs EXCEPT
                 !.pc = "degrees",
                 !.Ai = Div(AiNum, PyInt(fs.nNodes)),
                 !.Ao = Div(AoNum, PyInt(fs.nNodes)),
                 !.rMi = Div(PyInt(1), MiDen),
                 !.rMo = Div(PyInt(1), MoDen)]
    /\ UNCHANGED <<er, edr, gc, ge>>

\* the stub list of a degree list (lines 159-172): node vert, once per
\* unit of its degree, nodes in ascending order
RECURSIVE StubList(_, _)
StubList(lstDeg, vert) ==
    IF vert >= Len(lstDeg) THEN <<>>
    ELSE [j \in 1..lstDeg[vert + 1] |-> vert] \o StubList(lstDeg, vert + 1)

RECURSIVE SeqSum(_)
SeqSum(s) == IF s = <<>> THEN 0 ELSE Head(s) + SeqSum(Tail(s))

\* the slot written at pass j of a node whose stubs start at nStart
\* (lines 168, 170)
StubSlotFixed(nStart, j) == nStart

StubSlot(nStart, j) == nStart + j

\* np.zeros(n) (lines 159-160)
Zeros(n) == [i \in 1..n |-> 0]

\* lines 161-172 from node vert on.  st holds the two stub arrays, the
\* number of times each of their slots was written and the two offsets;
\* slot k of an array is entry k+1 of its sequence.
RECURSIVE StubLoop(_, _, _, _)
StubLoop(lstInDeg, lstOutDeg, vert, st) ==
    IF vert >= Len(lstInDeg) THEN st
    ELSE LET nInDegVert == lstInDeg[vert + 1]
             nOutDegVert == lstOutDeg[vert + 1]
             passes == 0..(Max(nInDegVert, nOutDegVert) - 1)
             inHits(i) == Cardinality({j \in passes :
                             j < nInDegVert /\ StubSlot(st.nStartIn, j) = i - 1})
             outHits(i) == Cardinality({j \in passes :
                             j < nOutDegVert /\ StubSlot(st.nStartOut, j) = i - 1})
         IN StubLoop(lstInDeg, lstOutDeg, vert + 1,
              [lstInStubs |-> [i \in DOMAIN st.lstInStubs |->
                                 st.lstInStubs[i] + inHits(i) * vert],
               lstOutStubs |-> [i \in DOMAIN st.lstOutStubs |->
                                 st.lstOutStubs[i] + outHits(i) * vert],
               nInWrites |-> [i \in DOMAIN st.nInWrites |->
                                 st.nInWrites[i] + inHits(i)],
               nOutWrites |-> [i \in DOMAIN st.nOutWrites |->
                                 st.nOutWrites[i] + outHits(i)],
               nStartIn |-> st.nStartIn + nInDegVert,
               nStartOut |-> st.nStartOut + nOutDegVert])

\* the array without its first entry equal to x
RemoveFirst(s, x) ==
    LET i == CHOOSE k \in DOMAIN s : s[k] = x /\ \A m \in 1..(k - 1) : s[m] # x
    IN SubSeq(s, 1, i - 1) \o SubSeq(s, i + 1, Len(s))

\* the arrays np.random.shuffle can leave in place of s: its entries in
\* any order
RECURSIVE Shuffles(_)
Shuffles(s) ==
    IF s = <<>> THEN {<<>>}
    ELSE UNION {{<<x>> \o t : t \in Shuffles(RemoveFirst(s, x))} : x \in Range(s)}

\* lines 152-172: the degree lists have one entry per node, each a floored
\* multiple of a Pareto draw, and the stub lists expand them.  vert is the
\* loop variable of line 163: the last node, unbound (-1) without nodes.
FS_Degrees ==
    /\ fs.pc = "degrees"
    /\ \E lstInDeg \in [1..fs.nNodes -> 0..MaxDegree],
          lstOutDeg \in [1..fs.nNodes -> 0..MaxDegree] :
          LET st == StubLoop(lstInDeg, lstOutDeg, 0,
                      [lstInStubs |-> Zeros(SeqSum(lstInDeg)),
                       lstOutStubs |-> Zeros(SeqSum(lstOutDeg)),
                       nInWrites |-> Zeros(SeqSum(lstInDeg)),
                       nOutWrites |-> Zeros(SeqSum(lstOutDeg)),
                       nStartIn |-> 0, nStartOut |-> 0])
          IN fs' = [fs EXCEPT
                 !.pc = "reconcile",
                 !.lstInDeg = lstInDeg,
                 !.lstOutDeg = lstOutDeg,
                 !.nInStubs = SeqSum(lstInDeg),
                 !.nOutStubs = SeqSum(lstOutDeg),
                 !.lstInStubs = st.lstInStubs,
                 !.lstOutStubs = st.lstOutStubs,
                 !.nInWrites = st.nInWrites,
                 !.nOutWrites = st.nOutWrites,
                 !.vert = fs.nNodes - 1]
    /\ UNCHANGED <<er, edr, gc, ge>>

\* lines 174 and 179: nStubs*(1+rFracRecip), divided by float(nArcs)
StubRatioNum(nStubs) == Mul(PyInt(nStubs), Add(PyInt(1), fs.rFracRecip))

\* the test of the while loops of lines 174 and 179, when the division
\* does not raise
TopUpContinue(nStubs) ==
    /\ ~DivRaises(StubRatioNum(nStubs), PyInt(fs.nArcs))
    /\ Less(Div(StubRatioNum(nStubs), PyInt(fs.nArcs)), Num(FALSE, 95, 100))

\* values of np.random.pareto (lines 176, 180)
ParetoDraws == {0, 1}

\* int(np.floor(A/rM*(x+1))) (lines 176, 180)
TopUpSize(A, rM, x) == Mul(Div(A, rM), PyInt(x + 1))

\* one pass of the loop of lines 174-178.  np.random.randint(0,nNodes)
\* raises ValueError without nodes, int() raises on nan and inf.
FS_TopUpIn ==
    /\ fs.pc = "reconcile"
    /\ TopUpContinue(fs.nInStubs)
    /\ IF fs.nNodes = 0 THEN FsRaise("ValueError")
       ELSE \E vert \in 0..(fs.nNodes - 1), x \in ParetoDraws :
              LET size == TopUpSize(fs.Ai, fs.rMi, x)
                  nAddInStubs == Floor(size)
              IN IF size.kind = "nan" THEN FsRaise("ValueError")
                 ELSE IF size.kind = "inf" THEN FsRaise("OverflowError")
                 ELSE fs' = [fs EXCEPT
                        !.vert = vert,
                        !.lstInStubs = fs.lstInStubs \o [j \in 1..nAddInStubs |-> vert],
                        !.nInStubs = fs.nInStubs + nAddInStubs]
    /\ UNCHANGED <<er, edr, gc, ge>>

\* one pass of the loop of lines 179-182, entered once the loop of line
\* 174 has ended; it reads vert, which it does not draw
FS_TopUpOut ==
    /\ fs.pc = "reconcile"
    /\ ~DivRaises(StubRatioNum(fs.nInStubs), PyInt(fs.nArcs))
    /\ ~TopUpContinue(fs.nInStubs)
    /\ TopUpContinue(fs.nOutStubs)
    /\ IF fs.vert < 0 THEN FsRaise("UnboundLocalError")
       ELSE \E x \in ParetoDraws :
              LET size == TopUpSize(fs.Ao, fs.rMo, x)
                  nAddOutStubs == Floor(size)
              IN IF size.kind = "nan" THEN FsRaise("ValueError")
                 ELSE IF size.kind = "inf" THEN FsRaise("OverflowError")
                 ELSE fs' = [fs EXCEPT
                        !.lstOutStubs = fs.lstOutStubs \o [j \in 1..nAddOutStubs |-> fs.vert],
                        !.nOutStubs = fs.nOutStubs + nAddOutStubs]
    /\ UNCHANGED <<er, edr, gc, ge>>

ResizeKeep(s, n) == s

\* ndarray.resize(n): the first n entries, zero-filled when there are fewer
Resize(s, n) == [i \in 1..n |-> IF i <= Len(s) THEN s[i] ELSE 0]

\* the tests of lines 174 and 179 when no top-up pass is left, and lines
\* 184-198
FS_Reconcile ==
    /\ fs.pc = "reconcile"
    /\ LET inRatio == StubRatioNum(fs.nInStubs)
           outRatio == StubRatioNum(fs.nOutStubs)
           \* line 184: int(1.13*(2.0*nArcs)/(2*(1+rFracRecip)))
           nMaxStubs == Floor(Div(Mul(Num(FALSE, 113, 100), PyInt(2 * fs.nArcs)),
                                  Mul(PyInt(2), Add(PyInt(1), fs.rFracRecip))))
       IN IF DivRaises(inRatio, PyInt(fs.nArcs)) \/ DivRaises(outRatio, PyInt(fs.nArcs))
          THEN FsRaise("ZeroDivisionError")
          ELSE /\ ~TopUpContinue(fs.nInStubs)
               /\ ~TopUpContinue(fs.nOutStubs)
               /\ \E ins \in Shuffles(fs.lstInStubs), outs \in Shuffles(fs.lstOutStubs) :
                 IF fs.nInStubs > nMaxStubs /\ fs.nOutStubs > nMaxStubs
                 THEN fs' = [fs EXCEPT !.pc = "edges", !.nMaxStubs = nMaxStubs,
                                !.lstInStubs = Resize(ins, nMaxStubs),
                                !.lstOutStubs = Resize(outs, nMaxStubs),
                                !.nInStubs = nMaxStubs, !.nOutStubs = nMaxStubs]
                 ELSE IF fs.nInStubs < fs.nOutStubs
                 THEN fs' = [fs EXCEPT !.pc = "edges", !.nMaxStubs = nMaxStubs,
                                !.lstOutStubs = Resize(outs, fs.nInStubs),
                                !.nOutStubs = fs.nInStubs]
                 ELSE fs' = [fs EXCEPT !.pc = "edges", !.nMaxStubs = nMaxStubs,
                                !.lstInStubs = Resize(ins, fs.nOutStubs),
                                !.nInStubs = fs.nOutStubs]
    /\ UNCHANGED <<er, edr, gc, ge>>

raw_edge_list_same_direction(lstOutStubs, lstInStubs, nRecip) ==
    LET srcs == lstOutStubs \o SubSeq(lstOutStubs, 1, nRecip)
        dsts == lstInStubs \o SubSeq(lstInStubs, 1, nRecip)
    IN [i \in DOMAIN srcs |-> <<srcs[i], dsts[i]>>]

\* lines 205-209: np.transpose(lstEdges), one (source, target) row per edge
raw_edge_list(lstOutStubs, lstInStubs, nRecip) ==
    LET lstInRecip == SubSeq(lstInStubs, 1, nRecip)
        lstOutRecip == SubSeq(lstOutStubs, 1, nRecip)
        srcs == lstOutStubs \o lstInRecip
        dsts == lstInStubs \o lstOutRecip
    IN [i \in DOMAIN srcs |-> <<srcs[i], dsts[i]>>]

\* lines 200-209
FS_Edges ==
    /\ fs.pc = "edges"
    /\ LET nRecip == Floor(Mul(PyInt(fs.nInStubs), fs.rFracRecip))
       IN \E ins \in Shuffles(fs.lstInStubs), outs \in Shuffles(fs.lstOutStubs) :
            LET rows == raw_edge_list(outs, ins, nRecip)
            IN fs' = [fs EXCEPT
                   !.pc = "filter",
                   !.nRecip = nRecip,
                   !.nEdges = fs.nInStubs + nRecip + 1,
                   !.lstInStubs = ins,
                   !.lstOutStubs = outs,
                   !.calls = Append(fs.calls, "add_edge_list"),
                   !.graphFS = add_edge_list(fs.graphFS, rows)]
    /\ UNCHANGED <<er, edr, gc, ge>>

\* g.degree_property_map("total")[v]
TotalDegree(g, v) ==
    LET inc == {e \in DOMAIN g.E : e[1] = v \/ e[2] = v}
        RECURSIVE Count(_)
        Count(S) == IF S = {} THEN 0
                    ELSE LET e == CHOOSE x \in S : TRUE
                         IN g.E[e] * (IF e[1] = e[2] THEN 2 ELSE 1) + Count(S \ {e})
    IN Count(inc)

find_isolated_out(g) ==
    {v \in 0..(g.nv - 1) : \A e \in DOMAIN g.E : e[1] # v}

\* find_vertex(g, g.degree_property_map("total"), 0) (lines 212, 294)
find_isolated(g) == {v \in 0..(g.nv - 1) : TotalDegree(g, v) = 0}

\* Graph.remove_vertex of a list of vertices (lines 213, 295): the other
\* vertices keep their order and are renumbered from 0
remove_vertex(g, lst) ==
    LET new(v) == v - Cardinality({u \in lst : u < v})
        kept == {e \in DOMAIN g.E : e[1] \notin lst /\ e[2] \notin lst}
    IN [g EXCEPT !.nv = g.nv - Cardinality(lst),
                 !.E = [e \in {<<new(x[1]), new(x[2])>> : x \in kept} |->
                          g.E[CHOOSE x \in kept : <<new(x[1]), new(x[2])>> = e]]]

\* lines 210-216: both filters are applied, whatever multigraph is
FS_Filter ==
    /\ fs.pc = "filter"
    /\ LET g1 == remove_parallel_edges(remove_self_loops(fs.graphFS))
           lstIsolatedVert == find_isolated(g1)
           g2 == remove_vertex(g1, lstIsolatedVert)
       IN fs' = [fs EXCEPT
              !.pc = "density",
              !.calls = fs.calls \o <<"remove_self_loops", "remove_parallel_edges">>,
              !.graphFS = g2,
              !.nNodes = g2.nv,
              !.nEdges = num_edges(g2)]
    /\ UNCHANGED <<er, edr, gc, ge>>

\* line 217: nEdges / float(nNodes**2), both built-in numbers
FS_Density ==
    /\ fs.pc = "density"
    /\ IF DivRaises(PyInt(fs.nEdges), PyInt(fs.nNodes * fs.nNodes))
       THEN FsRaise("ZeroDivisionError")
       ELSE fs' = [fs EXCEPT !.pc = "types",
                      !.rDens = Div(PyInt(fs.nEdges), PyInt(fs.nNodes * fs.nNodes))]
    /\ UNCHANGED <<er, edr, gc, ge>>

-----------------------------------------------------------------------------
(* gen_edr (lines 237-313).                                                *)
(*                                                                         *)
(* dicProperties is a record: keys is the set of the keys "Nodes",         *)
(* "Edges", "Density" the dictionary holds (the value recorded for an      *)
(* absent key is never read); the other keys are always present.           *)
(* Probabilities and uniform(0,1) variates are counted in thousandths.     *)
(* The calls enumerated have Rho = 1/3 and derive 3 nodes, so that the     *)
(* square has side sqrt(3/(1/3)) = 3 (line 260); the positions drawn are   *)
(* distinct points (x, 0) with x in 0..2, whose distances are integers.    *)

EdrSizeKeys == {"Nodes", "Edges", "Density"}

\* the values of Nodes, Edges, Density given by the caller
EdrShapes ==
    {[keys |-> {"Nodes", "Edges"}, Nodes |-> 3, Edges |-> 2, Density |-> <<0, 1>>],
     [keys |-> {"Nodes", "Density"}, Nodes |-> 3, Edges |-> 0, Density |-> <<2, 9>>],
     [keys |-> {"Nodes", "Density"}, Nodes |-> 3, Edges |-> 0, Density |-> <<3, 10>>],
     [keys |-> {"Edges", "Density"}, Nodes |-> 0, Edges |-> 2, Density |-> <<2, 9>>],
     [keys |-> EdrSizeKeys, Nodes |-> 3, Edges |-> 2, Density |-> <<2, 9>>],
     [keys |-> EdrSizeKeys, Nodes |-> 3, Edges |-> 2, Density |-> <<1, 3>>],
     [keys |-> {"Nodes"}, Nodes |-> 3, Edges |-> 0, Density |-> <<0, 1>>]}

Lambdas == {6, 12}

InhibFracs == {0, 500, 1000}

\* "Min" and "Max" of the betweenness-correlated weights
BetwRanges == {<<-1, 1>>, <<0, 1>>, <<1, 2>>}

\* the values of InhibFrac, Weighted, Distribution, Min, Max
EdrProfiles ==
    {[InhibFrac |-> p, Weighted |-> FALSE, Distribution |-> "Gaussian",
      Min |-> 0, Max |-> 1] : p \in InhibFracs}
    \cup {[InhibFrac |-> 500, Weighted |-> TRUE, Distribution |-> d,
           Min |-> 0, Max |-> 1] : d \in {"Gaussian", "Lognormal", "Degree"}}
    \cup {[InhibFrac |-> 500, Weighted |-> TRUE, Distribution |-> "Betweenness",
           Min |-> r[1], Max |-> r[2]] : r \in BetwRanges}

EdrDic(s, l, p) ==
    [keys |-> s.keys, Nodes |-> s.Nodes, Edges |-> s.Edges,
     Density |-> s.Density, Rho |-> <<1, 3>>, Lambda |-> l,
     InhibFrac |-> p.InhibFrac, Weighted |-> p.Weighted,
     Distribution |-> p.Distribution, Min |-> p.Min, Max |-> p.Max]

\* the dictionaries gen_edr is called with: every way of giving the sizes
\* without weights, and every choice of weights for one way of giving them
EdrDics ==
    {EdrDic(s, l, [InhibFrac |-> 500, Weighted |-> FALSE,
                   Distribution |-> "Gaussian", Min |-> 0, Max |-> 1]) :
        s \in EdrShapes, l \in Lambdas}
    \cup {EdrDic([keys |-> {"Nodes", "Edges"}, Nodes |-> 3, Edges |-> 2,
                  Density |-> <<0, 1>>], 12, p) : p \in EdrProfiles}
    \cup {EdrDic([keys |-> {"Nodes", "Edges"}, Nodes |-> 3, Edges |-> 1,
                  Density |-> <<0, 1>>], 2,
                 [InhibFrac |-> 500, Weighted |-> FALSE,
                  Distribution |-> "Gaussian", Min |-> 0, Max |-> 1])}

\* the values np.random.uniform gives at line 278 and at line 302
AcceptVariates == {500, 900}

TypeVariates == {0, 500, 750}

\* the values np.random.normal and np.random.lognormal give (lines 326-337)
NormalDraws == {-1, 2}

LognormalDraws == {1, 2}

\* log10 of the values graph_tool's betweenness gives to the edges (line 345)
LogBetweenness == 0..2

EdrIdle ==
    [dicProperties |-> [keys |-> {}, Nodes |-> 0, Edges |-> 0,
                        Density |-> <<0, 1>>, Rho |-> <<1, 3>>, Lambda |-> 6,
                        InhibFrac |-> 0, Weighted |-> FALSE,
                        Distribution |-> "Gaussian", Min |-> 0, Max |-> 1],
     pc |-> "idle", exc |-> "none",
     nNodes |-> 0, nEdges |-> 0, rDens |-> <<0, 1>>,
     lstPos |-> <<>>, numDesiredEdges |-> 0,
     graphEDR |-> NoGraph, pos |-> <<>>,
     nEdgesTot |-> 0, numTest |-> 0, lstTests |-> {},
     pruned |-> {},
     lstTypesGen |-> <<>>, nExc |-> 0, type |-> <<>>,
     arrLogBetw |-> <<>>, lstWeights |-> <<>>]

EdrRaise(what) == [edr EXCEPT !.pc = "raised", !.exc = what]

\* int(np.floor(np.sqrt(n/d))) (line 258)
FloorSqrt(n, d) ==
    LET q == n \div d
    IN CHOOSE k \in 0..q : k * k <= q /\ (k + 1) * (k + 1) > q

\* lines 242-259: node count, edge count and density from the two
\* dictionary entries the branch taken reads, and the dictionary after the
\* third entry was written into it (lines 250, 254, 259); ok is FALSE when
\* an entry read is missing
derive_sizes(dic) ==
    LET has(k) == k \in dic.keys
    IN IF has("Nodes") /\ has("Edges") THEN
          [ok |-> TRUE, nNodes |-> dic.Nodes, nEdges |-> dic.Edges,
           rDens |-> <<dic.Edges, dic.Nodes * dic.Nodes>>,
           dicProperties |->
              [dic EXCEPT !.keys = dic.keys \cup {"Density"},
                          !.Density = <<dic.Edges, dic.Nodes * dic.Nodes>>]]
       ELSE IF has("Nodes") /\ has("Density") THEN
          LET e == (dic.Density[1] * dic.Nodes * dic.Nodes) \div dic.Density[2]
          IN [ok |-> TRUE, nNodes |-> dic.Nodes, nEdges |-> e,
              rDens |-> dic.Density,
              dicProperties |->
                 [dic EXCEPT !.keys = dic.keys \cup {"Edges"}, !.Edges = e]]
       ELSE IF ~has("Nodes") /\ has("Edges") /\ has("Density") THEN
          LET n == FloorSqrt(dic.Edges * dic.Density[2], dic.Density[1])
          IN [ok |-> TRUE, nNodes |-> n, nEdges |-> dic.Edges,
              rDens |-> dic.Density,
              dicProperties |->
                 [dic EXCEPT !.keys = dic.keys \cup {"Nodes"}, !.Nodes = n]]
       ELSE [ok |-> FALSE, nNodes |-> 0, nEdges |-> 0, rDens |-> <<0, 1>>,
             dicProperties |-> dic]

\* lines 240-259: a dictionary with an entry missing raises KeyError
EDR_Derive ==
    /\ edr.pc = "call"
    /\ LET d == derive_sizes(edr.dicProperties)
       IN edr' =
            IF d.ok
            THEN [edr EXCEPT !.pc = "positions",
                             !.nNodes = d.nNodes, !.nEdges = d.nEdges,
                             !.rDens = d.rDens,
                             !.dicProperties = d.dicProperties]
            ELSE EdrRaise("KeyError")
    /\ UNCHANGED <<er, fs, gc, ge>>

\* sequences of n distinct abscissas in 0..2, one for each two that are
\* mirror images (they have the same distances)
PosDraws(n) ==
    {p \in [1..n -> 0..2] :
        /\ \A i, j \in 1..n : i # j => p[i] # p[j]
        /\ n > 1 => p[1] < p[n]}

\* geometric_graph(lstPos, 0) followed by set_directed(True) (lines
\* 266-267): one vertex per position, and no edge as no two positions are
\* within distance 0
geometric_graph(lstPos) ==
    [exists |-> TRUE, directed |-> TRUE, nv |-> Len(lstPos), E |-> EmptyBag]

\* lines 260-271
EDR_Positions ==
    /\ edr.pc = "positions"
    /\ \E p \in PosDraws(edr.nNodes) :
          edr' = [edr EXCEPT
                    !.pc = "loop",
                    !.lstPos = p,
                    !.numDesiredEdges =
                        (edr.rDens[1] * edr.nNodes * edr.nNodes) \div edr.rDens[2],
                    !.graphEDR = geometric_graph(p),
                    !.pos = p,
                    !.nEdgesTot = 0,
                    !.numTest = 0]
    /\ UNCHANGED <<er, fs, gc, ge>>

\* np.exp(rAverageDistance/rLambda) in thousandths, for the side 3:
\* rAverageDistance = sqrt(2)*3/3 (lines 260-261, 273)
ExpAvgDist(lambda) ==
    IF lambda = 2 THEN 2028 ELSE IF lambda = 6 THEN 1266 ELSE 1125

\* np.exp(np.divide(dist, -rLambda)) in thousandths, for dist in 0..2
\* (line 277)
ExpNegDist(dist, lambda) ==
    IF lambda = 2 THEN <<1000, 607, 368>>[dist + 1]
    ELSE IF lambda = 6 THEN <<1000, 846, 717>>[dist + 1]
    ELSE <<1000, 920, 846>>[dist + 1]

\* np.linalg.norm(lstPos[dst] - lstPos[src]) (line 276)
Distance(lstPos, src, dst) ==
    IF lstPos[src + 1] >= lstPos[dst + 1]
    THEN lstPos[src + 1] - lstPos[dst + 1]
    ELSE lstPos[dst + 1] - lstPos[src + 1]

np_greater_equal(a, b) == a >= b

\* np.greater (lines 279, 304)
np_greater(a, b) == a > b

CreateEdgeReversed(dist, u, lambda) == np_greater(u, ExpNegDist(dist, lambda))

\* one entry of lstCreateEdge (lines 277-279)
CreateEdge(dist, u, lambda) == np_greater(ExpNegDist(dist, lambda), u)

\* nTests (line 273) for a deficit of m edges
NumTests(m, lambda) ==
    LET t == (11 * m * ExpAvgDist(lambda)) \div 10000
    IN IF t <= 10000000 THEN t ELSE 10000000

TakeAll(s, n) == s

\* s[:n]
Take(s, n) == SubSeq(s, 1, IF n <= Len(s) THEN n ELSE Len(s))

EdrContinue ==
    /\ edr.nEdgesTot < edr.numDesiredEdges
    /\ edr.numTest < n_MAXTESTS

\* one pass of the loop (lines 272-293): nTests candidate pairs, each kept
\* when exp(-distance/lambda) exceeds its uniform variate; of the pairs kept
\* at most the missing number is inserted; then both filters
EDR_Round ==
    /\ edr.pc = "loop"
    /\ EdrContinue
    /\ LET lambda == edr.dicProperties.Lambda
           missing == edr.numDesiredEdges - edr.nEdgesTot
           nTests == NumTests(missing, lambda)
           V == 0..(edr.nNodes - 1)
       IN \E tests \in [1..nTests -> V \X V \X AcceptVariates] :
            LET dist(t) == Distance(edr.lstPos, t[1], t[2])
                created(t) == CreateEdge(dist(t), t[3], lambda)
                kept == SelectSeq(tests, created)
                lstEdges == IF Len(kept) + edr.nEdgesTot > edr.numDesiredEdges
                            THEN Take(kept, missing)
                            ELSE kept
                rows == [i \in DOMAIN lstEdges |->
                            <<lstEdges[i][1], lstEdges[i][2]>>]
                g == remove_parallel_edges(remove_self_loops(
                         add_edge_list(edr.graphEDR, rows)))
            IN edr' = [edr EXCEPT
                         !.lstTests = {<<dist(tests[i]), tests[i][3],
                                         created(tests[i])>> : i \in DOMAIN tests},
                         !.graphEDR = g,
                         !.nEdgesTot = num_edges(g),
                         !.numTest = edr.numTest + 1]
    /\ UNCHANGED <<er, fs, gc, ge>>

truncate_prop(prop, lst) == SubSeq(prop, 1, Len(prop) - Cardinality(lst))

\* the property map of the vertices after remove_vertex(lst): the entries
\* of the vertices kept, in their order
remove_vertex_prop(prop, lst) ==
    LET keptIdx == SortedSeqOf({i \in DOMAIN prop : (i - 1) \notin lst})
    IN [k \in DOMAIN keptIdx |-> prop[keptIdx[k]]]

\* the prune step (lines 294-296)
prune_isolated(g) == remove_vertex(g, find_isolated(g))

\* lines 294-299, once the loop has ended; the candidates of the last pass
\* are not read again
EDR_Prune ==
    /\ edr.pc = "loop"
    /\ ~EdrContinue
    /\ LET lstIsolatedVert == find_isolated(edr.graphEDR)
           g == prune_isolated(edr.graphEDR)
       IN edr' =
            IF g.nv = 0
            THEN [edr EXCEPT !.pc = "raised", !.exc = "ZeroDivisionError",
                             !.lstTests = {},
                             !.pruned = lstIsolatedVert,
                             !.graphEDR = g,
                             !.pos = remove_vertex_prop(edr.pos, lstIsolatedVert),
                             !.nNodes = g.nv, !.nEdges = num_edges(g)]
            ELSE [edr EXCEPT !.pc = "types",
                             !.lstTests = {},
                             !.pruned = lstIsolatedVert,
                             !.graphEDR = g,
                             !.pos = remove_vertex_prop(edr.pos, lstIsolatedVert),
                             !.nNodes = g.nv, !.nEdges = num_edges(g),
                             !.rDens = <<num_edges(g), g.nv * g.nv>>]
    /\ UNCHANGED <<er, fs, gc, ge>>

\* lines 301-307: one uniform variate per edge; the edge is excitatory (+1)
\* when its variate is greater than InhibFrac, inhibitory (-1) otherwise
EDR_Types ==
    /\ edr.pc = "types"
    /\ \E lstTypesGen \in [1..edr.nEdges -> TypeVariates] :
         LET rInhibFrac == edr.dicProperties.InhibFrac
             lstIsExcitatory == [i \in 1..edr.nEdges |->
                                    np_greater(lstTypesGen[i], rInhibFrac)]
         IN edr' = [edr EXCEPT
                      !.pc = "weights",
                      !.lstTypesGen = lstTypesGen,
                      !.nExc = Cardinality({i \in 1..edr.nEdges : lstIsExcitatory[i]}),
                      !.type = [i \in 1..edr.nEdges |->
                                   2 * (IF lstIsExcitatory[i] THEN 1 ELSE 0) - 1]]
    /\ UNCHANGED <<er, fs, gc, ge>>

\* A weight is recorded with the distribution it was drawn from.
Weight(drawn, w) == [drawn |-> drawn, w |-> w]

Abs(x) == IF x >= 0 THEN x ELSE -x

\* gaussian_weights and lognormal_weights (lines 321-339): the nExc
\* excitatory draws, then the nEdges - nExc inhibitory draws
concatenated_weights(excDraws, inhibDraws) ==
    [i \in DOMAIN excDraws |-> Weight("exc", Num(TRUE, Abs(excDraws[i]), 1))]
    \o [i \in DOMAIN inhibDraws |-> Weight("inhib", Num(TRUE, Abs(inhibDraws[i]), 1))]

Pow10(e) == IF e = 0 THEN 1 ELSE IF e = 1 THEN 10 ELSE 100

SeqMax(s) == CHOOSE m \in Range(s) : \A x \in Range(s) : m >= x

SeqMin(s) == CHOOSE m \in Range(s) : \A x \in Range(s) : m <= x

\* betweenness_correlated_weights (lines 341-355) on the log10 of the
\* betweenness values.  Line 350 maps them to -5 + 2*(l - min)/(max - min),
\* which is 0/0 = nan for every edge when max = min (a numpy array
\* division: no exception); line 351 gives 10^-5 * 10^e with e in 0..2, so
\* that rMinBetw = 10^-5, rMaxBetw = 10^-3 and line 354 gives
\* (10^e - 1)/100 * rMax + rMin.
betweenness_correlated_weights(arrLogBetw, rMin, rMax) ==
    LET rMaxLogBetw == SeqMax(arrLogBetw)
        rMinLogBetw == SeqMin(arrLogBetw)
        e(i) == (2 * (arrLogBetw[i] - rMinLogBetw)) \div (rMaxLogBetw - rMinLogBetw)
    IN [i \in DOMAIN arrLogBetw |->
          Weight("betweenness",
                 IF rMaxLogBetw = rMinLogBetw THEN NaN
                 ELSE Add(Mul(Num(TRUE, Pow10(e(i)) - 1, 100), Num(FALSE, rMax, 1)),
                          Num(FALSE, rMin, 1)))]

\* degree_correlated_weights (lines 357-359)
degree_correlated_weights(nEdges) ==
    [i \in 1..nEdges |-> Weight("degree", Num(TRUE, 1, 1))]

\* lines 309-313: the weights given by dicGenWeights[Distribution], when
\* Weighted; then the return
EDR_Weights ==
    /\ edr.pc = "weights"
    /\ LET dic == edr.dicProperties
           nInhib == edr.nEdges - edr.nExc
       IN IF ~dic.Weighted THEN edr' = [edr EXCEPT !.pc = "done"]
          ELSE IF dic.Distribution = "Gaussian" THEN
             \E x \in [1..edr.nExc -> NormalDraws], y \in [1..nInhib -> NormalDraws] :
                edr' = [edr EXCEPT !.pc = "done",
                                   !.lstWeights = concatenated_weights(x, y)]
          ELSE IF dic.Distribution = "Lognormal" THEN
             \E x \in [1..edr.nExc -> LognormalDraws],
                y \in [1..nInhib -> LognormalDraws] :
                edr' = [edr EXCEPT !.pc = "done",
                                   !.lstWeights = concatenated_weights(x, y)]
          ELSE IF dic.Distribution = "Betweenness" THEN
             \E b \in [1..edr.nEdges -> LogBetweenness] :
                edr' = [edr EXCEPT
                          !.pc = "done",
                          !.arrLogBetw = b,
                          !.lstWeights =
                              betweenness_correlated_weights(b, dic.Min, dic.Max)]
          ELSE edr' = [edr EXCEPT !.pc = "done",
                                  !.lstWeights = degree_correlated_weights(edr.nEdges)]
    /\ UNCHANGED <<er, fs, gc, ge>>

-----------------------------------------------------------------------------
(* The graph classes (src/src/nngt/core/graph_classes.py): the class       *)
(* attributes that count instances and give ids.                           *)
(*                                                                         *)
(* A name __x written in the body of class C is the attribute _C__x.       *)
(* self.__class__ is the class the instance was created from, so           *)
(* self.__class__.__x reads _C__x where the method resolution order of     *)
(* that class finds it first, and self.__class__.__x += 1 writes it on     *)
(* that class itself.                                                      *)

MaxInstances == 3

Classes == {"Graph", "SpatialGraph", "Network", "SpatialNetwork"}

\* lines 29, 499, 606, 863
Mro(cls) ==
    IF cls = "Graph" THEN <<"Graph">>
    ELSE IF cls = "SpatialGraph" THEN <<"SpatialGraph", "Graph">>
    ELSE IF cls = "Network" THEN <<"Network", "Graph">>
    ELSE <<"SpatialNetwork", "Network", "SpatialGraph", "Graph">>

AttrNames ==
    {"_Graph__num_graphs", "_Graph__max_id",
     "_SpatialGraph__num_graphs", "_SpatialGraph__max_id",
     "_Network__num_networks", "_Network__max_id",
     "_SpatialNetwork__num_networks", "_SpatialNetwork__max_id"}

Unset == [set |-> FALSE, v |-> 0]

\* the class bodies (lines 44-45, 517-518, 628-629, 889-890)
ClassAttrs ==
    [c \in Classes |-> [n \in AttrNames |->
        IF \/ c = "Graph" /\ n \in {"_Graph__num_graphs", "_Graph__max_id"}
           \/ c = "SpatialGraph"
                /\ n \in {"_SpatialGraph__num_graphs", "_SpatialGraph__max_id"}
           \/ c = "Network"
                /\ n \in {"_Network__num_networks", "_Network__max_id"}
           \/ c = "SpatialNetwork"
                /\ n \in {"_SpatialNetwork__num_networks", "_SpatialNetwork__max_id"}
        THEN [set |-> TRUE, v |-> 0]
        ELSE Unset]]

\* cls.name : the value in the first class of the resolution order that
\* holds the attribute
GetAttr(a, cls, name) ==
    LET mro == Mro(cls)
        first == CHOOSE i \in DOMAIN mro :
                    /\ a[mro[i]][name].set
                    /\ \A j \in 1..(i - 1) : ~a[mro[j]][name].set
    IN a[mro[first]][name].v

\* cls.name += d
AddAttr(a, cls, name, d) ==
    [a EXCEPT ![cls][name] = [set |-> TRUE, v |-> GetAttr(a, cls, name) + d]]

\* how a construction ends: "none" (it returns); "population" (population
\* is None, lines 771-772 and 923-924); "body" (one of the calls of lines
\* 136-146 raises); "positions" (line 590); "bioproperties" (lines
\* 800-806)
Failures(cls) ==
    {"none", "body"}
    \cup (IF cls \in {"SpatialGraph", "SpatialNetwork"} THEN {"positions"} ELSE {})
    \cup (IF cls \in {"Network", "SpatialNetwork"}
          THEN {"population", "bioproperties"} ELSE {})

GcIdle == [attrs |-> ClassAttrs, instances |-> <<>>]

\* Graph.__init__ (lines 130-149) of an instance of class cls
Graph_init(a, cls, fail) ==
    LET id == GetAttr(a, cls, "_Graph__max_id")
    IN IF fail = "body"
       THEN [attrs |-> a, has_id |-> TRUE, id |-> id]
       ELSE [attrs |-> AddAttr(AddAttr(a, cls, "_Graph__num_graphs", 1),
                               cls, "_Graph__max_id", 1),
             has_id |-> TRUE, id |-> id]

\* SpatialGraph.__init__ (lines 558-564); _init_spatial_properties comes
\* last and changes no counter
SpatialGraph_init(a, cls, fail) ==
    Graph_init(AddAttr(AddAttr(a, cls, "_SpatialGraph__num_graphs", 1),
                       cls, "_SpatialGraph__max_id", 1),
               cls, fail)

\* Network.__init__ (lines 765-779); super() of Network is SpatialGraph
\* for an instance of SpatialNetwork, Graph otherwise
Network_init(a, cls, fail) ==
    LET a1 == AddAttr(AddAttr(a, cls, "_Network__num_networks", 1),
                      cls, "_Network__max_id", 1)
    IN IF fail = "population"
       THEN [attrs |-> a1, has_id |-> FALSE, id |-> 0]
       ELSE IF cls = "SpatialNetwork" THEN SpatialGraph_init(a1, cls, fail)
       ELSE Graph_init(a1, cls, fail)

\* SpatialNetwork.__init__ (lines 920-928)
SpatialNetwork_init(a, cls, fail) ==
    LET a1 == AddAttr(AddAttr(a, cls, "_SpatialNetwork__num_networks", 1),
                      cls, "_SpatialNetwork__max_id", 1)
    IN IF fail = "population"
       THEN [attrs |-> a1, has_id |-> FALSE, id |-> 0]
       ELSE Network_init(a1, cls, fail)

\* cls(...) : the constructor of the class runs; the instance exists
\* whether or not the constructor returns
GC_New ==
    /\ Len(gc.instances) < MaxInstances
    /\ \E cls \in Classes : \E fail \in Failures(cls) :
         LET r == IF cls = "Graph" THEN Graph_init(gc.attrs, cls, fail)
                  ELSE IF cls = "SpatialGraph"
                       THEN SpatialGraph_init(gc.attrs, cls, fail)
                  ELSE IF cls = "Network" THEN Network_init(gc.attrs, cls, fail)
                  ELSE SpatialNetwork_init(gc.attrs, cls, fail)
         IN gc' = [attrs |-> r.attrs,
                   instances |-> Append(gc.instances,
                       [cls |-> cls,
                        state |-> IF fail = "none" THEN "alive" ELSE "failed",
                        has_id |-> r.has_id, id |-> r.id,
                        \* self._shape is set at line 561
                        has_shape |-> cls = "SpatialGraph"
                                      \/ (cls = "SpatialNetwork"
                                          /\ fail # "population")])]
    /\ UNCHANGED <<er, fs, edr, ge>>

\* Graph.__del__ (lines 151-152)
Graph_del(a, cls) == AddAttr(a, cls, "_Graph__num_graphs", -1)

\* SpatialGraph.__del__ (lines 566-571), when self._shape exists
SpatialGraph_del(a, cls) ==
    AddAttr(Graph_del(a, cls), cls, "_SpatialGraph__num_graphs", -1)

\* Network.__del__ (lines 781-783)
Network_del(a, cls) ==
    AddAttr(IF cls = "SpatialNetwork" THEN SpatialGraph_del(a, cls)
            ELSE Graph_del(a, cls),
            cls, "_Network__num_networks", -1)

\* SpatialNetwork.__del__ (lines 930-932)
SpatialNetwork_del(a, cls) ==
    AddAttr(Network_del(a, cls), cls, "_SpatialNetwork__num_networks", -1)

\* the last reference to an instance goes and its __del__ runs.  For an
\* instance without _shape, line 567 raises AttributeError before any
\* counter is written; an exception raised in __del__ is printed and
\* dropped, and the instance is freed.
GC_Del ==
    /\ \E i \in DOMAIN gc.instances :
         LET x == gc.instances[i]
         IN /\ x.state \in {"alive", "failed"}
            /\ gc' = [attrs |->
                         IF x.cls = "Graph" THEN Graph_del(gc.attrs, x.cls)
                         ELSE IF x.cls = "Network" THEN Network_del(gc.attrs, x.cls)
                         ELSE IF ~x.has_shape THEN gc.attrs
                         ELSE IF x.cls = "SpatialGraph"
                              THEN SpatialGraph_del(gc.attrs, x.cls)
                         ELSE SpatialNetwork_del(gc.attrs, x.cls),
                      instances |-> [gc.instances EXCEPT ![i].state = "deleted"]]
    /\ UNCHANGED <<er, fs, edr, ge>>

\* Graph.num_graphs() (lines 53-56)
num_graphs == GetAttr(gc.attrs, "Graph", "_Graph__num_graphs")

AliveInstances == {i \in DOMAIN gc.instances : gc.instances[i].state = "alive"}

-----------------------------------------------------------------------------
(* The edges of a Graph instance (graph_classes.py).                       *)
(*                                                                         *)
(* An instance keeps its edges twice: in self._graph, a GraphObject, and   *)
(* in the list self._edges.  The class GraphObject is not part of the      *)
(* sources; its three methods used here are modelled after their names,    *)
(* on a multiset of (source, target) pairs.                                *)

\* largest number of entries of self._edges
MaxEdges == 3

\* values of the argument lst_edges of add_edges: one or two edges between
\* the nodes 0 and 1
EdgeLists ==
    LET pairs == (0..1) \X (0..1)
    IN {<<e>> : e \in pairs} \cup {<<e, f>> : e \in pairs, f \in pairs}

\* GraphObject.new_edges(lst_edges): the graph with these edges added
GraphObject_new_edges(graph, lst_edges) == graph (+) SeqToBag(lst_edges)

\* GraphObject.clear_edges(): the graph without any edge
GraphObject_clear_edges(graph) == EmptyBag

\* GraphObject.edge_nb(): the number of edges of the graph
GraphObject_edge_nb(graph) == BagCardinality(graph)

\* a Graph instance after __init__ (lines 133, 139): no edge in either
GeIdle == [_edges |-> <<>>, _graph |-> EmptyBag, last |-> "__init__"]

\* Graph.add_edges (lines 196-208)
Graph_add_edges ==
    /\ \E lst_edges \in EdgeLists :
          /\ Len(ge._edges) + Len(lst_edges) <= MaxEdges
          /\ ge' = [_edges |-> ge._edges \o lst_edges,
                    _graph |-> GraphObject_new_edges(ge._graph, lst_edges),
                    last |-> "add_edges"]
    /\ UNCHANGED <<er, fs, edr, gc>>

\* Graph.clear_edges (lines 258-260)
Graph_clear_edges ==
    /\ ge' = [ge EXCEPT !._graph = GraphObject_clear_edges(ge._graph),
                        !.last = "clear_edges"]
    /\ UNCHANGED <<er, fs, edr, gc>>

\* the property Graph.edges (lines 179-181)
Graph_edges == ge._edges

\* Graph.edge_nb (lines 386-388)
Graph_edge_nb == GraphObject_edge_nb(ge._graph)

-----------------------------------------------------------------------------
(* The specifications.                                                     *)

\* The state at the call: the arguments, and float_size_ok, which says
\* whether the installed numpy takes a float as an array size, truncating
\* it (old releases), or raises TypeError (recent ones).  It is only read
\* when pre_recip_edges is a float (line 65).
InitER ==
    /\ \E a \in ErArgs :
         \E f \in (IF RecipRequested(a) THEN BOOLEAN ELSE {TRUE}) :
            er = [ErIdle EXCEPT !.nodes = a.nodes, !.density = a.density,
                     !.edges = a.edges, !.avg_deg = a.avg_deg,
                     !.reciprocity = a.reciprocity, !.directed = a.directed,
                     !.multigraph = a.multigraph,
                     !.float_size_ok = f, !.pc = "call"]
    /\ fs = FsIdle
    /\ edr = EdrIdle
    /\ gc = GcIdle
    /\ ge = GeIdle

InitFS ==
    /\ \E a \in FsArgs, d \in DicProperties :
          fs = [FsIdle EXCEPT !.nodes = a.nodes, !.density = a.density,
                   !.edges = a.edges, !.avg_deg = a.avg_deg,
                   !.in_exp = a.in_exp, !.out_exp = a.out_exp,
                   !.directed = a.directed, !.multigraph = a.multigraph,
                   !.dicProperties = d, !.pc = "call"]
    /\ er = ErIdle
    /\ edr = EdrIdle
    /\ gc = GcIdle
    /\ ge = GeIdle

NextER == ER_Setup \/ ER_BaseRound \/ ER_BaseExit \/ ER_RecipRound \/ ER_RecipExit

SpecER == InitER /\ [][NextER]_vars

NextFS ==
    \/ FS_Setup \/ FS_Properties \/ FS_Law \/ FS_Degrees
    \/ FS_Reconcile \/ FS_Edges \/ FS_Filter \/ FS_Density

SpecFS == InitFS /\ [][NextFS]_vars

\* The stub stages of random_free_scale (lines 146-209) as a function of
\* nNodes, nArcs and rFracRecip.  A call reaches them with nNodes = 0 and
\* nArcs = 0 only (lines 140-144), where every list is empty and no top-up
\* pass runs; SpecStubs runs the same actions from the values below.
StubNodes == {1, 2}

StubArcs == {2, 4}

StubFracRecip == {<<0, 1>>, <<1, 3>>, <<1, 1>>}

InitStubs ==
    /\ \E n \in StubNodes, a \in StubArcs, r \in StubFracRecip :
          fs = [FsIdle EXCEPT !.nodes = n,
                   !.dicProperties = CHOOSE d \in DicProperties :
                        d.defined /\ d.InDeg = <<5, 2>> /\ \A k \in DicKeys : d.np[k],
                   !.graphFS = Graph(TRUE),
                   !.rFracRecip = Num(TRUE, r[1], r[2]),
                   !.rInDeg = Num(TRUE, 5, 2), !.rOutDeg = Num(TRUE, 5, 2),
                   !.nNodes = n, !.nArcs = a, !.pc = "law"]
    /\ er = ErIdle
    /\ edr = EdrIdle
    /\ gc = GcIdle
    /\ ge = GeIdle

NextStubs ==
    \/ FS_Law \/ FS_Degrees \/ FS_TopUpIn \/ FS_TopUpOut
    \/ FS_Reconcile \/ FS_Edges

SpecStubs == InitStubs /\ [][NextStubs]_vars

InitEDR ==
    /\ \E d \in EdrDics : edr = [EdrIdle EXCEPT !.dicProperties = d, !.pc = "call"]
    /\ er = ErIdle
    /\ fs = FsIdle
    /\ gc = GcIdle
    /\ ge = GeIdle

NextEDR ==
    \/ EDR_Derive \/ EDR_Positions \/ EDR_Round \/ EDR_Prune
    \/ EDR_Types \/ EDR_Weights

SpecEDR == InitEDR /\ [][NextEDR]_vars

\* no instance of a graph class exists when the module has been imported
InitGC ==
    /\ gc = GcIdle
    /\ ge = GeIdle
    /\ er = ErIdle
    /\ fs = FsIdle
    /\ edr = EdrIdle

NextGC == GC_New \/ GC_Del

SpecGC == InitGC /\ [][NextGC]_vars

\* a Graph instance has been created; no generator runs
InitGE ==
    /\ ge = GeIdle
    /\ er = ErIdle
    /\ fs = FsIdle
    /\ edr = EdrIdle
    /\ gc = GcIdle

NextGE == Graph_add_edges \/ Graph_clear_edges

SpecGE == InitGE /\ [][NextGE]_vars

\* a caller runs one of the generators, or creates and frees graphs
Init == InitER \/ InitFS \/ InitEDR \/ InitGC

Next == NextER \/ NextFS \/ NextEDR \/ NextGC

Spec == Init /\ [][Next]_vars

-----------------------------------------------------------------------------
(* Properties of erdos_renyi, checked under SpecER.                        *)

\* the target edge count E returned at line 58: line 60 keeps it in
\* pre_recip_edges unless lines 63-65 run, and then edges still holds it
TargetE == IF RecipRequested(er) THEN er.edges ELSE er.pre_recip_edges[1]

ErEdges == er.graph_er.E

\* C1: in every state of a call of erdos_renyi, so after every pass of the
\* base loop and of the reciprocity loop and at the return, the graph has no
\* self-loop and, when multigraph is False, no (src,dst) pair twice.
C1_NoSelfLoopNoParallel ==
    /\ \A e \in BagToSet(ErEdges) : e[1] # e[2]
    /\ ~er.multigraph => \A e \in BagToSet(ErEdges) : CopiesIn(e, ErEdges) = 1

\* a call that returned after passes of both loops, the target reached
C1_Witness ==
    /\ er.pc = "done" /\ RecipRequested(er) /\ ~er.multigraph
    /\ er.num_test >= 2
    /\ num_edges(er.graph_er) = TargetE
    /\ num_edges(er.graph_er) > Len(er.coo_adjacency.col)

\* C2: the graph returned has at most E edges, and exactly E when the call
\* returns with fewer than n_MAXTESTS passes made.
C2_EdgeCountAtMostTarget ==
    er.pc = "done" =>
        /\ num_edges(er.graph_er) <= TargetE
        /\ er.num_test < n_MAXTESTS => num_edges(er.graph_er) = TargetE

C2_Witness ==
    /\ er.pc = "done" /\ er.num_test < n_MAXTESTS
    /\ TargetE >= 2
    /\ num_edges(er.graph_er) = TargetE

\* what is left to run: the phases ahead, then the passes the cap allows
ErMeasure ==
    LET rank == CASE er.pc = "call" -> 3
                  [] er.pc = "base" -> 2
                  [] er.pc = "recip" -> 1
                  [] OTHER -> 0
    IN rank * (n_MAXTESTS + 1) + (n_MAXTESTS - er.num_test)

\* C3: erdos_renyi terminates whatever is drawn: every step of the call
\* strictly decreases a measure that never goes below zero; a pass of either
\* loop adds one to num_test, which never exceeds n_MAXTESTS over both loops.
C3_Terminates ==
    [][/\ ErMeasure' < ErMeasure
       /\ ErMeasure' >= 0
       /\ er'.num_test <= n_MAXTESTS
       /\ (er'.pc = er.pc => er'.num_test = er.num_test + 1)]_vars

\* a call that used every pass the cap allows and returned short of E
C3_Witness ==
    /\ er.pc = "done" /\ er.num_test = n_MAXTESTS
    /\ num_edges(er.graph_er) < TargetE

\* C4: a call that returns fewer than E edges has signalled a
\* ConvergenceWarning.
C4_ShortfallIsWarned ==
    (er.pc = "done" /\ num_edges(er.graph_er) < TargetE)
        => "ConvergenceWarning" \in er.warnings

\* the edge counts the arguments given at the call stand for
ErGivenCounts ==
    (IF er.edges # -1 THEN {er.edges} ELSE {})
      \cup (IF er.avg_deg # -1 THEN {er.avg_deg * er.nodes} ELSE {})
      \cup (IF er.density # DefaultDensity
            THEN {(er.density[1] * er.nodes * er.nodes) \div er.density[2]}
            ELSE {})

\* the arguments at the call are inconsistent, or give an edge count that is
\* not positive or is more than nodes*(nodes-1)
ErArgsInvalid ==
    \/ Cardinality(ErGivenCounts) > 1
    \/ \E E \in ErGivenCounts : E <= 0 \/ E > er.nodes * (er.nodes - 1)
    \/ /\ ErGivenCounts = {}
       /\ LET E == (DefaultDensity[1] * er.nodes * er.nodes) \div DefaultDensity[2]
          IN E <= 0 \/ E > er.nodes * (er.nodes - 1)

C6_NodeCountKept == er.pc = "done" => er.graph_er.nv = er.nodes

\* C7: with directed=False the graph returned is symmetric: u-v is an edge
\* if and only if v-u is.
C7_UndirectedSymmetric ==
    (er.pc = "done" /\ ~er.directed) =>
        \A u, v \in 0..(er.nodes - 1) :
            HasEdge(er.graph_er, u, v) <=> HasEdge(er.graph_er, v, u)

C7_Witness ==
    /\ er.pc = "done" /\ ~er.directed
    /\ num_edges(er.graph_er) >= 2
    /\ \E u, v \in 0..(er.nodes - 1) : u # v /\ HasEdge(er.graph_er, u, v)

-----------------------------------------------------------------------------
(* Properties of random_free_scale, checked under SpecFS.                  *)

FsEnded == fs.pc \in {"raised", "done"}

C9_ParallelRemovedUnlessMultigraph ==
    fs.pc = "density" =>
        /\ \E i \in DOMAIN fs.calls : fs.calls[i] = "remove_self_loops"
        /\ (\E i \in DOMAIN fs.calls : fs.calls[i] = "remove_parallel_edges")
              <=> ~fs.multigraph

BadExponent(x) == x[1] <= 2 * x[2]

\* C10: with in_exp <= 2 or out_exp <= 2 the call raises InvalidParameter
\* at its first step, and no call ends in a division by zero.
C10_ExponentsValidated ==
    /\ (fs.pc # "call" /\ (BadExponent(fs.in_exp) \/ BadExponent(fs.out_exp)))
          => (fs.pc = "raised" /\ fs.exc = "InvalidParameter")
    /\ fs.exc # "ZeroDivisionError"

-----------------------------------------------------------------------------
(* Properties of gen_edr and of the weight functions, checked under        *)
(* SpecEDR.                                                                *)

\* the caller gave Nodes, Edges and Density, and Density # Edges/Nodes^2
EdrContradictory(dic) ==
    /\ dic.keys = EdrSizeKeys
    /\ dic.Density[1] * dic.Nodes * dic.Nodes # dic.Edges * dic.Density[2]

\* C11: gen_edr refuses contradictory sizes with InvalidParameter, and the
\* node count, edge count and density it goes on with satisfy
\* density = edges / nodes^2 (up to the rounding of the edge count to an
\* integer).
C11_DerivesConsistentlyOrRejects ==
    [][(edr.pc = "call" /\ edr'.pc # "call") =>
          IF EdrContradictory(edr.dicProperties)
          THEN edr'.exc = "InvalidParameter"
          ELSE edr'.pc = "positions" =>
                  edr'.nEdges = (edr'.rDens[1] * edr'.nNodes * edr'.nNodes)
                                   \div edr'.rDens[2]]_vars

EdrPruned ==
    \/ edr.pc \in {"types", "weights", "done"}
    \/ edr.pc = "raised" /\ edr.exc = "ZeroDivisionError"

\* C12: the prune step is idempotent: applied again to the pruned graph it
\* finds no vertex of total degree 0 and leaves the vertices, their
\* positions and the edges as they are.
C12_PruneIdempotent ==
    EdrPruned =>
       /\ find_isolated(edr.graphEDR) = {}
       /\ prune_isolated(edr.graphEDR) = edr.graphEDR
       /\ remove_vertex_prop(edr.pos, find_isolated(edr.graphEDR)) = edr.pos

C12_Witness ==
    /\ edr.pc = "types"
    /\ edr.pruned # {}
    /\ num_edges(edr.graphEDR) = 2
    /\ edr.graphEDR.nv = 2

\* C13: the type vector has one entry per edge of the pruned graph, each
\* +1 or -1, and edge i is inhibitory (-1) exactly when its variate is
\* <= InhibFrac; so InhibFrac = 1 makes every edge inhibitory and
\* InhibFrac = 0 only the edges whose variate is 0.
C13_TypeFollowsVariate ==
    edr.pc \in {"weights", "done"} =>
       /\ Len(edr.type) = num_edges(edr.graphEDR)
       /\ Len(edr.lstTypesGen) = num_edges(edr.graphEDR)
       /\ \A i \in DOMAIN edr.type :
             /\ edr.type[i] \in {1, -1}
             /\ edr.type[i] = -1 <=> edr.lstTypesGen[i] <= edr.dicProperties.InhibFrac
             /\ edr.dicProperties.InhibFrac = 1000 => edr.type[i] = -1
             /\ edr.dicProperties.InhibFrac = 0 =>
                   (edr.type[i] = -1 <=> edr.lstTypesGen[i] = 0)

C13_Witness ==
    /\ edr.pc = "done"
    /\ edr.dicProperties.InhibFrac = 500
    /\ Len(edr.type) = 2
    /\ \E i, j \in DOMAIN edr.type :
          /\ edr.lstTypesGen[i] = 500 /\ edr.type[i] = -1
          /\ edr.lstTypesGen[j] = 750 /\ edr.type[j] = 1

EdrWeighted == edr.pc = "done" /\ edr.dicProperties.Weighted

C15_WeightsParallelToTypes ==
    (EdrWeighted /\ edr.dicProperties.Distribution \in {"Gaussian", "Lognormal"}) =>
       \A i \in DOMAIN edr.lstWeights :
          edr.lstWeights[i].drawn = (IF edr.type[i] = 1 THEN "exc" ELSE "inhib")

C17_AcceptanceMonotone ==
    \A t1, t2 \in edr.lstTests :
       (t1[2] = t2[2] /\ t1[1] < t2[1] /\ t2[3]) => t1[3]

C17_Witness ==
    \E t1, t2 \in edr.lstTests :
       t1[2] = t2[2] /\ 0 < t1[1] /\ t1[1] < t2[1] /\ t2[3] /\ t1[3]

-----------------------------------------------------------------------------
(* Properties of the graph classes, checked under SpecGC.                  *)

\* C18: Graph.num_graphs() is the number of instances alive, of Graph and
\* of its subclasses.
C18_NumGraphsCountsAlive == num_graphs = Cardinality(AliveInstances)

\* C19: no two instances have the same id.
C19_IdsUnique ==
    \A i, j \in AliveInstances :
       i # j => gc.instances[i].id # gc.instances[j].id

-----------------------------------------------------------------------------
(* The reciprocity phase of erdos_renyi, checked under SpecER.             *)

\* the edges (source, target) of the snapshot taken at line 79
BaseEdges ==
    {<<er.coo_adjacency.col[i], er.coo_adjacency.row[i]>> :
        i \in DOMAIN er.coo_adjacency.col}

\* C20: in the reciprocity phase the graph holds, besides the edges of the
\* base phase, only reverses of them.
C20_RecipAddsOnlyReverses ==
    (RecipRequested(er) /\ er.pc \in {"recip", "done"}) =>
       \A e \in DOMAIN er.graph_er.E :
          e \in BaseEdges \/ <<e[2], e[1]>> \in BaseEdges

-----------------------------------------------------------------------------
(* The stub stages of random_free_scale, checked under SpecStubs.          *)

\* the number of entries of s equal to v
Occurrences(s, v) == Cardinality({i \in DOMAIN s : s[i] = v})

-----------------------------------------------------------------------------
(* The loop and the prune step of gen_edr, checked under SpecEDR.          *)

\* C24: while the loop of gen_edr runs, the graph has at most
\* numDesiredEdges edges, nEdgesTot of them, no self-loop and no parallel
\* edge; the loop is left only with nEdgesTot = numDesiredEdges or with
\* numTest at the cap.
C24_RoundKeepsTarget ==
    /\ edr.pc = "loop" =>
          /\ edr.nEdgesTot <= edr.numDesiredEdges
          /\ edr.nEdgesTot = num_edges(edr.graphEDR)
          /\ \A e \in DOMAIN edr.graphEDR.E :
                e[1] # e[2] /\ edr.graphEDR.E[e] = 1
    /\ EdrPruned =>
          \/ edr.nEdgesTot = edr.numDesiredEdges
          \/ edr.numTest = n_MAXTESTS

\* a pass that kept both of its two candidate pairs, neither a self-loop,
\* with one edge missing
C24_Witness ==
    /\ edr.pc = "loop"
    /\ edr.numTest = 1
    /\ edr.numDesiredEdges = 1 /\ edr.nEdgesTot = 1
    /\ NumTests(1, edr.dicProperties.Lambda) = 2
    /\ edr.lstTests = {<<1, 500, TRUE>>}

\* C25: the prune step renumbers the vertices that have an edge as
\* 0..N'-1 in their order; every edge joins the same two of them as before
\* and each keeps the position drawn for it at line 263.
C25_PruneStableCompaction ==
    [][(edr.pc = "loop" /\ edr'.pc # "loop") =>
          LET g == edr.graphEDR
              isolated == {v \in 0..(g.nv - 1) :
                             \A e \in DOMAIN g.E : e[1] # v /\ e[2] # v}
              survivors == SortedSeqOf((0..(g.nv - 1)) \ isolated)
          IN /\ edr'.graphEDR.nv = Len(survivors)
             /\ edr'.nNodes = Len(survivors)
             /\ Len(edr'.pos) = Len(survivors)
             /\ \A k \in DOMAIN survivors :
                   edr'.pos[k] = edr.lstPos[survivors[k] + 1]
             /\ \A a, b \in DOMAIN survivors :
                   CopiesIn(<<a - 1, b - 1>>, edr'.graphEDR.E)
                      = CopiesIn(<<survivors[a], survivors[b]>>, g.E)
             /\ num_edges(edr'.graphEDR) = num_edges(g)]_vars

\* vertex 0 was pruned and the two others, joined by an edge, are now 0
\* and 1
C25_Witness ==
    /\ EdrPruned
    /\ edr.pruned = {0}
    /\ edr.graphEDR.nv = 2
    /\ edr.pos = <<edr.lstPos[2], edr.lstPos[3]>>
    /\ edr.pos # <<edr.lstPos[1], edr.lstPos[2]>>
    /\ num_edges(edr.graphEDR) >= 1

-----------------------------------------------------------------------------
(* The betweenness-correlated weights, checked under SpecEDR.              *)

-----------------------------------------------------------------------------
(* The two loops of erdos_renyi, checked under SpecER.                     *)

\* C27: in every pass of the reciprocity loop, each index that can be
\* drawn at line 81 is an index of the snapshot taken at line 79; no pass
\* raises IndexError.
C27_RecipIndicesValid ==
    /\ er.exc # "IndexError"
    /\ (er.pc = "recip" /\ RecipContinue) =>
          er.num_current_edges <= Len(er.coo_adjacency.col)

\* C28: with reciprocity requested, the edge count the base loop aims at
\* (line 65) is a whole number.
C28_BaseCountWhole ==
    (RecipRequested(er) /\ er.pc \in {"base", "recip", "done"}) =>
       er.pre_recip_edges[1] % er.pre_recip_edges[2] = 0

-----------------------------------------------------------------------------
(* The dictionary of gen_edr, checked under SpecEDR.                       *)

\* numDesiredEdges (line 265) for the sizes d
DesiredEdges(d) == (d.rDens[1] * d.nNodes * d.nNodes) \div d.rDens[2]

\* C29: gen_edr leaves the dictionary it is given as it was, and a second
\* call with the same dictionary derives the same node count, target edge
\* count and density as the first.
C29_DictionaryUnchanged ==
    [][(edr.pc = "call" /\ edr'.pc = "positions") =>
          LET first == derive_sizes(edr.dicProperties)
              second == derive_sizes(edr'.dicProperties)
          IN /\ edr'.dicProperties = edr.dicProperties
             /\ second.nNodes = first.nNodes
             /\ DesiredEdges(second) = DesiredEdges(first)
             /\ second.rDens[1] * first.rDens[2]
                   = first.rDens[1] * second.rDens[2]]_vars

-----------------------------------------------------------------------------
(* The edges of a Graph instance, checked under SpecGE.                    *)

\* C30: the property edges lists the edges the graph object holds, each as
\* often as the graph holds it; its length is edge_nb(), and it is empty
\* when the last call was clear_edges.
C30_EdgesMirrorGraph ==
    /\ SeqToBag(Graph_edges) = ge._graph
    /\ Len(Graph_edges) = Graph_edge_nb
    /\ ge.last = "clear_edges" => Graph_edges = <<>>

====
